---- MODULE Spec2Model ----
(***************************************************************************)
(* Model of the document-intelligence pipeline of src/main.py:             *)
(* segmentation, deduplication, scoring, ranking, excerpt refinement and   *)
(* the main() driver around them.                                          *)
(*                                                                         *)
(* Text is modelled structurally.  A text is a sequence of pieces, one per *)
(* line; a piece is a sequence of runs <<word, count>> (count copies of    *)
(* word, separated by single spaces) with a flag telling whether the piece *)
(* ends with a full stop.  A piece without runs is a blank line.  Pieces   *)
(* are separated by exactly one whitespace character.  Character lengths   *)
(* and word counts are computed from the words, with the constants of the  *)
(* source kept at their source values.                                     *)
(***************************************************************************)
EXTENDS Integers, Sequences, FiniteSets, TLC

VARIABLES
    pc,          \* position of the running call
    sections,    \* the `sections` argument of the function under analysis
    result,      \* its return value
    doc_content, \* the document dictionary under segmentation
    hashseed,    \* the interpreter's hash randomisation, fixed per process
    persona,     \* the persona string in use
    job,         \* the job-to-be-done string in use
    log,         \* the log records written so far (level and message kind)
    pdf_files,   \* the PDF files of the input directory, in glob order
    idx,         \* position of the loop of process_documents in pdf_files
    all_sections,    \* locals of process_documents
    document_info,
    ranked_sections,
    output,      \* <<>> until process_documents builds its dictionary
    output_file, \* challenge1b_output.json: <<>> while it does not exist
    exit_code,   \* -1 while the process runs
    config       \* the persona and job sources of the input directory

driver == <<pdf_files, idx, all_sections, document_info, ranked_sections,
            output, output_file, exit_code, config>>

vars == <<pc, sections, result, doc_content, hashseed, persona, job, log, driver>>

\* the state of main() when a single function is analysed on its own
DriverIdle ==
    /\ config = <<>>
    /\ pdf_files = <<>>
    /\ idx = 0
    /\ all_sections = <<>>
    /\ document_info = <<>>
    /\ ranked_sections = <<>>
    /\ output = <<>>
    /\ output_file = <<>>
    /\ exit_code = -1

-----------------------------------------------------------------------------
(* Bounds of the model *)

MaxSections == 3
MaxScore == 2
MaxSentences == 6
MaxPages == 3
MaxPdfs == 2

-----------------------------------------------------------------------------
(* Generic helpers *)

Min(a, b) == IF a <= b THEN a ELSE b

Max(a, b) == IF a >= b THEN a ELSE b

RECURSIVE SumSeq(_)
SumSeq(s) == IF s = <<>> THEN 0 ELSE Head(s) + SumSeq(Tail(s))

RECURSIVE FlattenSeq(_)
FlattenSeq(ss) == IF ss = <<>> THEN <<>> ELSE Head(ss) \o FlattenSeq(Tail(ss))

RECURSIVE Replicate(_, _)
Replicate(x, n) == IF n <= 0 THEN <<>> ELSE <<x>> \o Replicate(x, n - 1)

SeqsUpTo(S, n) == UNION {[1..k -> S] : k \in 0..n}

Range(s) == {s[i] : i \in 1..Len(s)}

-----------------------------------------------------------------------------
(* Text *)

\* len(word) for the vocabulary of the model
WordLen(w) ==
    CASE w \in {"1", "2", "3", "4", "5", "6", "7", "8", "9"} -> 1
      [] w \in {"is", "It"} -> 2
      [] w \in {"has", "The", "fun", "and"} -> 3
      [] w \in {"many", "food", "easy", "plan", "trip", "Plan", "Tips", "2024",
                 "Nice", "Page"} -> 4
      [] w \in {"Paris", "group", "lorem", "Lorem", "ipsum", "Nice,", "beach",
                 "coast", "Group"} -> 5
      [] w \in {"budget", "Budget", "hotels", "Hotels", "Dining", "Travel",
                 "groups"} -> 6
      [] w \in {"museums", "friends", "lodging", "Content", "Options", "Coastal",
                 "seafood"} -> 7
      [] w \in {"beautiful", "excellent", "Transport", "Nightlife"} -> 9
      [] w \in {"Activities"} -> 10
      [] w \in {"Attractions", "Restaurants", "Information"} -> 11
      [] w \in {"Accommodation", "Entertainment"} -> 13
      [] w \in {"Transportation"} -> 14

\* the words of the vocabulary that start with a capital letter
Capitalised ==
    {"It", "The", "Plan", "Tips", "Nice", "Nice,", "Page", "Paris", "Lorem", "Group",
     "Budget", "Hotels", "Dining", "Travel", "Content", "Options", "Coastal",
     "Transport", "Nightlife", "Activities", "Attractions", "Restaurants",
     "Information", "Accommodation", "Entertainment", "Transportation"}

\* str.lower() of one word
Lower(w) ==
    CASE w = "It" -> "it"
      [] w = "The" -> "the"
      [] w = "Plan" -> "plan"
      [] w = "Tips" -> "tips"
      [] w = "Nice" -> "nice"
      [] w = "Nice," -> "nice,"
      [] w = "Page" -> "page"
      [] w = "Paris" -> "paris"
      [] w = "Lorem" -> "lorem"
      [] w = "Group" -> "group"
      [] w = "Budget" -> "budget"
      [] w = "Hotels" -> "hotels"
      [] w = "Dining" -> "dining"
      [] w = "Travel" -> "travel"
      [] w = "Content" -> "content"
      [] w = "Options" -> "options"
      [] w = "Coastal" -> "coastal"
      [] w = "Transport" -> "transport"
      [] w = "Nightlife" -> "nightlife"
      [] w = "Activities" -> "activities"
      [] w = "Attractions" -> "attractions"
      [] w = "Restaurants" -> "restaurants"
      [] w = "Information" -> "information"
      [] w = "Accommodation" -> "accommodation"
      [] w = "Entertainment" -> "entertainment"
      [] w = "Transportation" -> "transportation"
      [] OTHER -> w

\* str[0].isupper() of one word
IsUpperInitial(w) == w \in Capitalised

Blank == [runs |-> <<>>, dot |-> FALSE]

\* a sentence-like line: the words, then a full stop
Sent(runs) == [runs |-> runs, dot |-> TRUE]

\* a line without a trailing full stop
Line(runs) == [runs |-> runs, dot |-> FALSE]

RECURSIVE RunsWords(_)
RunsWords(runs) == IF runs = <<>> THEN 0 ELSE Head(runs)[2] + RunsWords(Tail(runs))

RECURSIVE RunsChars(_)
\* every word is followed by one character (a space, or the final full stop)
RunsChars(runs) ==
    IF runs = <<>> THEN 0
    ELSE Head(runs)[2] * (WordLen(Head(runs)[1]) + 1) + RunsChars(Tail(runs))

\* len(piece.split())
PieceWords(p) == RunsWords(p.runs)

\* len(piece), the piece holding no leading or trailing whitespace
PieceLen(p) ==
    IF p.runs = <<>> THEN 0
    ELSE RunsChars(p.runs) - (IF p.dot THEN 0 ELSE 1)

IsBlank(p) == p.runs = <<>>

RECURSIVE LStrip(_)
LStrip(t) == IF t # <<>> /\ IsBlank(Head(t)) THEN LStrip(Tail(t)) ELSE t

RECURSIVE RStrip(_)
RStrip(t) ==
    IF t # <<>> /\ IsBlank(t[Len(t)]) THEN RStrip(SubSeq(t, 1, Len(t) - 1)) ELSE t

\* str.strip() of a text
Strip(t) == RStrip(LStrip(t))

RECURSIVE SumPieceLen(_)
SumPieceLen(t) == IF t = <<>> THEN 0 ELSE PieceLen(Head(t)) + SumPieceLen(Tail(t))

\* len(text): the pieces and one separator between neighbours
TextLen(t) == IF t = <<>> THEN 0 ELSE SumPieceLen(t) + Len(t) - 1

RECURSIVE TextWords(_)
\* len(text.split())
TextWords(t) == IF t = <<>> THEN 0 ELSE PieceWords(Head(t)) + TextWords(Tail(t))

RECURSIVE RunsTokens(_, _)
\* the tokens of one piece, lower-cased: <<word, whether a full stop follows>>
RunsTokens(runs, dot) ==
    IF runs = <<>> THEN <<>>
    ELSE IF Len(runs) = 1 /\ dot
         THEN Replicate(<<Lower(Head(runs)[1]), FALSE>>, Head(runs)[2] - 1)
                  \o <<<<Lower(Head(runs)[1]), TRUE>>>>
         ELSE Replicate(<<Lower(Head(runs)[1]), FALSE>>, Head(runs)[2])
                  \o RunsTokens(Tail(runs), dot)

RECURSIVE LowerTokens(_)
\* text.lower().split()
LowerTokens(t) ==
    IF t = <<>> THEN <<>>
    ELSE RunsTokens(Head(t).runs, Head(t).dot) \o LowerTokens(Tail(t))

\* `kw in word` for a lower-cased word of the vocabulary and a keyword
WordContains(w, kw) ==
    \/ kw = w
    \/ <<w, kw>> \in {<<"groups", "group">>, <<"seafood", "sea">>, <<"seafood", "food">>,
                      <<"transportation", "transport">>, <<"coastal", "coast">>,
                      <<"nightlife", "night">>}

\* `kw in content.lower()`; the keywords that hold a space occur in no text
\* made of the vocabulary
KeywordIn(content, kw) ==
    \E i \in 1..Len(content) : \E j \in 1..Len(content[i].runs) :
        WordContains(Lower(content[i].runs[j][1]), kw)

-----------------------------------------------------------------------------
(* Section dictionaries *)

\* the dictionary without the key 'relevance_score'
NoScore == <<0, 0>>

Section(doc, page, title, content) ==
    [document |-> doc, page_number |-> page, section_title |-> title,
     content |-> content, word_count |-> TextWords(content),
     relevance_score |-> NoScore]

-----------------------------------------------------------------------------
(* extract_text_from_pdf: the document dictionary *)

\* text.split('\n') of a page text; the empty string is one empty line
Lines(t) == IF t = <<>> THEN <<Blank>> ELSE t

RECURSIVE FullTextFrom(_, _)
\* full_text += text + "\n", page after page
FullTextFrom(pages, i) ==
    IF i > Len(pages) THEN <<Blank>>
    ELSE Lines(pages[i].text) \o FullTextFrom(pages, i + 1)

FullText(pages) == IF pages = <<>> THEN <<>> ELSE FullTextFrom(pages, 1)

\* no document
NoDocument == [filename |-> "", pages |-> <<>>, total_pages |-> 0, full_text |-> <<>>]

\* the dictionary returned for a readable PDF with the given page texts
DocContent(filename, texts) ==
    LET pages == [i \in 1..Len(texts) |-> [page_number |-> i, text |-> texts[i]]]
    IN  [filename |-> filename, pages |-> pages, total_pages |-> Len(pages),
         full_text |-> FullText(pages)]

-----------------------------------------------------------------------------
(* is_section_title *)

\* words made of letters only
PlainWord(w) == w \notin {"2024", "Nice,", "1", "2", "3", "4", "5", "6", "7", "8", "9"}

AllPlain(p) == \A i \in 1..Len(p.runs) : PlainWord(p.runs[i][1])

\* the prefix patterns of lines 153-165, matched without regard to case:
\* the first words of the vocabulary that begin with one of the alternatives
StartsLikeTitle(p) ==
    Lower(p.runs[1][1]) \in {"tips", "budget", "group", "groups", "hotels", "beach",
                              "travel", "coastal", "nightlife", "activities",
                              "attractions", "restaurants", "accommodation",
                              "entertainment"}

TitleMinLen == 5
TitleMaxLen == 100
TitleMaxLines == 5

\* the pattern of line 152: letters, whitespace, & and - only, so no full stop
MatchesNamePattern(p) == ~p.dot /\ AllPlain(p)

is_section_title(first_line, paragraph) ==
    /\ ~IsBlank(first_line)
    /\ PieceLen(first_line) >= TitleMinLen
    /\ \/ MatchesNamePattern(first_line)
       \/ StartsLikeTitle(first_line)
       \/ /\ PieceLen(first_line) < TitleMaxLen
          /\ ~first_line.dot
          /\ Len(paragraph) <= TitleMaxLines
          /\ IsUpperInitial(first_line.runs[1][1])

-----------------------------------------------------------------------------
(* extract_sections_by_content: the heading pass, lines 84-129 *)

RECURSIVE ParasFrom(_, _)
\* re.split(r'\n\s*\n', full_text), each part stripped, the empty ones left
\* out: the maximal runs of non-blank lines
ParasFrom(ft, cur) ==
    IF ft = <<>> THEN (IF cur = <<>> THEN <<>> ELSE <<cur>>)
    ELSE IF IsBlank(Head(ft))
         THEN (IF cur = <<>> THEN <<>> ELSE <<cur>>) \o ParasFrom(Tail(ft), <<>>)
         ELSE ParasFrom(Tail(ft), Append(cur, Head(ft)))

Paragraphs(ft) == ParasFrom(ft, <<>>)

SectionMinLen == 100

NoTitle == Blank

HeadingInit == [sections |-> <<>>, current_section |-> <<>>, current_title |-> NoTitle]

\* a loop body that stores the new title before it saves the previous section
HeadingStepRetitling(st, para, filename) ==
    LET is_title == is_section_title(para[1], para)
        closing == is_title /\ st.current_section # <<>>
        saved == IF closing /\ TextLen(Strip(st.current_section)) > SectionMinLen
                 THEN Append(st.sections,
                             Section(filename, 1, para[1], Strip(st.current_section)))
                 ELSE st.sections
        kept == IF closing THEN <<>> ELSE st.current_section
    IN  IF is_title
        THEN [sections |-> saved, current_title |-> para[1],
              current_section |-> IF Len(para) > 1 THEN Tail(para) ELSE kept]
        ELSE [sections |-> saved, current_title |-> st.current_title,
              current_section |-> (IF kept = <<>> THEN <<Blank>> ELSE kept) \o para]

\* one turn of the loop of lines 90-119 for a non-empty paragraph;
\* current_page stays 1
HeadingStep(st, para, filename) ==
    LET is_title == is_section_title(para[1], para)
        closing == is_title /\ st.current_section # <<>>
        saved == IF closing /\ TextLen(Strip(st.current_section)) > SectionMinLen
                 THEN Append(st.sections,
                             Section(filename, 1, st.current_title,
                                     Strip(st.current_section)))
                 ELSE st.sections
        kept == IF closing THEN <<>> ELSE st.current_section
    IN  IF is_title
        THEN [sections |-> saved, current_title |-> para[1],
              current_section |-> IF Len(para) > 1 THEN Tail(para) ELSE kept]
        ELSE [sections |-> saved, current_title |-> st.current_title,
              current_section |-> (IF kept = <<>> THEN <<Blank>> ELSE kept) \o para]

RECURSIVE HeadingLoop(_, _, _, _)
HeadingLoop(paras, i, st, filename) ==
    IF i > Len(paras) THEN st
    ELSE HeadingLoop(paras, i + 1, HeadingStep(st, paras[i], filename), filename)

\* `sections` after line 129
HeadingSections(doc) ==
    LET st == HeadingLoop(Paragraphs(doc.full_text), 1, HeadingInit, doc.filename)
    IN  IF /\ st.current_section # <<>>
           /\ st.current_title # NoTitle
           /\ TextLen(Strip(st.current_section)) > SectionMinLen
        THEN Append(st.sections,
                    Section(doc.filename, 1, st.current_title, Strip(st.current_section)))
        ELSE st.sections

-----------------------------------------------------------------------------
(* create_page_based_sections and extract_page_title *)

PageMinLen == 100
PageTitleLines == 10
PageTitleMinLen == 10

\* re.sub(r'[^\w\s-]', '', word)
CleanWord(w) == IF w = "Nice," THEN "Nice" ELSE w

\* the line without its punctuation
CleanLine(p) ==
    [runs |-> [i \in 1..Len(p.runs) |-> <<CleanWord(p.runs[i][1]), p.runs[i][2]>>],
     dot |-> FALSE]

\* the test of lines 216-218; no line of the model starts with a bullet
TitleLikeLine(p) ==
    /\ ~IsBlank(p)
    /\ 5 < PieceLen(p) /\ PieceLen(p) < 100
    /\ ~p.dot
    /\ IsUpperInitial(p.runs[1][1])

RECURSIVE PageTitleFrom(_, _)
\* the first title-like line among the first ten whose cleaned form is longer
\* than 10 characters; NoTitle stands for None
PageTitleFrom(lines, i) ==
    IF i > Len(lines) \/ i > PageTitleLines THEN NoTitle
    ELSE IF TitleLikeLine(lines[i]) /\ PieceLen(CleanLine(lines[i])) > PageTitleMinLen
         THEN CleanLine(lines[i])
         ELSE PageTitleFrom(lines, i + 1)

extract_page_title(content) == PageTitleFrom(content, 1)

\* f"Page {n} Content"
PageNContent(n) == Line(<<<<"Page", 1>>, <<ToString(n), 1>>, <<"Content", 1>>>>)

PageKeptAnyText(page) == TextLen(Strip(page.text)) >= 1

\* not (len(content) < 100)
PageKept(page) == TextLen(Strip(page.text)) >= PageMinLen

PageSection(page, filename) ==
    Section(filename, page.page_number,
            IF extract_page_title(Strip(page.text)) = NoTitle
            THEN PageNContent(page.page_number)
            ELSE extract_page_title(Strip(page.text)),
            Strip(page.text))

RECURSIVE PageSectionsFrom(_, _, _)
PageSectionsFrom(pages, i, filename) ==
    IF i > Len(pages) THEN <<>>
    ELSE (IF PageKept(pages[i]) THEN <<PageSection(pages[i], filename)>> ELSE <<>>)
             \o PageSectionsFrom(pages, i + 1, filename)

create_page_based_sections(pages, filename) == PageSectionsFrom(pages, 1, filename)

-----------------------------------------------------------------------------
(* deduplicate_and_filter_sections *)

DedupWords == 50
MinWordCount == 50

\* hash(frozenset(...)): a function of the set, fixed for the process by the
\* hash seed.  Seed 0 separates all sets of the model, seed 1 is a hash under
\* which sets of equal size collide.
HashSeeds == {0, 1}

PyHash(seed, set) == IF seed = 0 THEN <<0, set>> ELSE <<1, Cardinality(set)>>

\* set(content.lower().split()[:50])
ContentWordsAsSequence(content) ==
    SubSeq(LowerTokens(content), 1, Min(Len(LowerTokens(content)), DedupWords))

ContentWords(content) ==
    LET toks == LowerTokens(content)
    IN  {toks[i] : i \in 1..Min(Len(toks), DedupWords)}

ContentHash(s, seed) == PyHash(seed, ContentWords(s.content))

RECURSIVE UniqueFrom(_, _, _, _)
\* the loop of lines 301-308
UniqueFrom(secs, i, seen, seed) ==
    IF i > Len(secs) THEN <<>>
    ELSE IF ContentHash(secs[i], seed) \notin seen
         THEN <<secs[i]>> \o UniqueFrom(secs, i + 1,
                                        seen \cup {ContentHash(secs[i], seed)}, seed)
         ELSE UniqueFrom(secs, i + 1, seen, seed)

\* a loop that starts at the second section
UniqueSectionsSkippingFirst(secs, seed) == UniqueFrom(secs, 2, {}, seed)

UniqueSections(secs, seed) == UniqueFrom(secs, 1, {}, seed)

QualityAbove(s) == s.word_count > MinWordCount

Quality(s) == s.word_count >= MinWordCount

deduplicate_and_filter_sections(secs, seed) ==
    SelectSeq(UniqueSections(secs, seed), Quality)

-----------------------------------------------------------------------------
(* extract_travel_specific_sections and extract_chunk_title *)

ChunkMinLen == 150
ChunkMinKeywords == 2
ChunkTitleLines == 3

\* travel_keywords, in the order of the dictionary
TravelKeywords ==
    <<<<"activities", {"activities", "things to do", "attractions", "sightseeing"}>>,
      <<"accommodation", {"hotels", "accommodation", "lodging", "staying"}>>,
      <<"dining", {"restaurants", "dining", "food", "cuisine", "eating"}>>,
      <<"transportation", {"transport", "getting around", "travel", "flights"}>>,
      <<"budget", {"budget", "cost", "price", "affordable", "cheap"}>>,
      <<"groups", {"group", "friends", "party", "together"}>>,
      <<"coastal", {"beach", "coast", "sea", "water sports", "swimming"}>>,
      <<"nightlife", {"nightlife", "bars", "clubs", "evening", "night"}>>>>

\* category_titles
CategoryTitle(category) ==
    CASE category = "activities" ->
            Line(<<<<"Activities", 1>>, <<"and", 1>>, <<"Attractions", 1>>>>)
      [] category = "accommodation" ->
            Line(<<<<"Hotels", 1>>, <<"and", 1>>, <<"Accommodation", 1>>>>)
      [] category = "dining" ->
            Line(<<<<"Restaurants", 1>>, <<"and", 1>>, <<"Dining", 1>>>>)
      [] category = "transportation" ->
            Line(<<<<"Transportation", 1>>, <<"Options", 1>>>>)
      [] category = "budget" -> Line(<<<<"Budget", 1>>, <<"Information", 1>>>>)
      [] category = "groups" -> Line(<<<<"Group", 1>>, <<"Travel", 1>>, <<"Tips", 1>>>>)
      [] category = "coastal" -> Line(<<<<"Coastal", 1>>, <<"Activities", 1>>>>)
      [] category = "nightlife" ->
            Line(<<<<"Nightlife", 1>>, <<"and", 1>>, <<"Entertainment", 1>>>>)

KeywordCount(chunk, keywords) == Cardinality({kw \in keywords : KeywordIn(chunk, kw)})

RECURSIVE FirstCategory(_, _)
\* index of the first category with two keywords or more in the chunk, 0 for none
FirstCategory(chunk, k) ==
    IF k > Len(TravelKeywords) THEN 0
    ELSE IF KeywordCount(chunk, TravelKeywords[k][2]) >= ChunkMinKeywords THEN k
    ELSE FirstCategory(chunk, k + 1)

RECURSIVE ChunkTitleFrom(_, _, _)
ChunkTitleFrom(lines, i, category) ==
    IF i > Len(lines) \/ i > ChunkTitleLines THEN CategoryTitle(category)
    ELSE IF ~IsBlank(lines[i]) /\ PieceLen(lines[i]) < 100 /\ ~lines[i].dot
         THEN lines[i]
         ELSE ChunkTitleFrom(lines, i + 1, category)

\* `lines` is chunk.split('\n')
extract_chunk_title(lines, category) == ChunkTitleFrom(lines, 1, category)

\* chunk.split('\n') of the k-th chunk: the split leaves a leading newline
\* only in a first chunk that follows exactly one empty line
ChunkLines(ft, paras, k) ==
    IF k = 1 /\ Len(ft) >= 2 /\ IsBlank(ft[1]) /\ ~IsBlank(ft[2])
    THEN <<Blank>> \o paras[k]
    ELSE paras[k]

TravelSection(filename, lines, chunk, k) ==
    [document |-> filename, page_number |-> 1,
     section_title |-> extract_chunk_title(lines, TravelKeywords[k][1]),
     content |-> chunk, word_count |-> TextWords(chunk),
     relevance_score |-> NoScore,
     category |-> TravelKeywords[k][1],
     keyword_count |-> KeywordCount(chunk, TravelKeywords[k][2])]

RECURSIVE TravelFrom(_, _, _, _)
TravelFrom(ft, paras, i, filename) ==
    IF i > Len(paras) THEN <<>>
    ELSE (IF TextLen(paras[i]) >= ChunkMinLen /\ FirstCategory(paras[i], 1) # 0
          THEN <<TravelSection(filename, ChunkLines(ft, paras, i), paras[i],
                               FirstCategory(paras[i], 1))>>
          ELSE <<>>) \o TravelFrom(ft, paras, i + 1, filename)

extract_travel_specific_sections(full_text, filename) ==
    TravelFrom(full_text, Paragraphs(full_text), 1, filename)

-----------------------------------------------------------------------------
(* extract_sections_by_content, lines 131-142 *)

MinSections == 3

\* lines 132-133
AfterFallback(secs, doc) ==
    IF Len(secs) < MinSections
    THEN create_page_based_sections(doc.pages, doc.filename)
    ELSE secs

\* lines 136-137
AfterTravel(secs, doc) ==
    secs \o extract_travel_specific_sections(doc.full_text, doc.filename)

extract_sections_by_content(doc, seed) ==
    deduplicate_and_filter_sections(
        AfterTravel(AfterFallback(HeadingSections(doc), doc), doc), seed)

-----------------------------------------------------------------------------
(* Scores are rationals <<numerator, denominator>>; <<0, 0>> stands for a  *)
(* section dictionary without the key 'relevance_score'.                   *)

HasScore(s) == s.relevance_score[2] # 0

ScoreGE(a, b) == a[1] * b[2] >= b[1] * a[2]

ScoreGT(a, b) == a[1] * b[2] > b[1] * a[2]

ScoreEq(a, b) == a[1] * b[2] = b[1] * a[2]

-----------------------------------------------------------------------------
(* calculate_relevance_scores and simple_keyword_score *)

DefaultPersona == "Travel Planner"

DefaultJob == "Plan a trip of 4 days for a group of 10 college friends."

ScenarioJob == "Plan a trip for college friends"

OtherPersona == "Food Contractor"

OtherJob == "Prepare a vegetarian buffet menu"

\* `sub in text.lower()` for the persona and job strings of the model
LowerContains(text, sub) ==
    CASE text = DefaultJob ->
            sub \in {"college friends", "group", "trip", "4 days", "days"}
      [] text = ScenarioJob -> sub \in {"college friends", "trip"}
      [] text = DefaultPersona -> sub \in {"travel planner", "travel"}
      [] OTHER -> FALSE

\* query_parts, lines 334-348
QueryParts(p, j) ==
    (IF LowerContains(j, "college friends") \/ LowerContains(j, "group")
     THEN <<"group", "friends", "college", "young", "budget", "fun", "activities">>
     ELSE <<>>)
    \o (IF LowerContains(j, "trip") \/ LowerContains(j, "travel")
        THEN <<"travel", "trip", "plan", "itinerary", "destination">>
        ELSE <<>>)
    \o (IF LowerContains(j, "4 days") \/ LowerContains(j, "days")
        THEN <<"short", "quick", "weekend", "brief">>
        ELSE <<>>)
    \o (IF LowerContains(p, "travel planner")
        THEN <<"plan", "organize", "schedule", "itinerary", "logistics">>
        ELSE <<>>)

RECURSIVE KeywordHits(_, _)
\* score += 1.0 for every entry of keywords found, repeated entries included
KeywordHits(content, keywords) ==
    IF keywords = <<>> THEN 0
    ELSE (IF KeywordIn(content, Head(keywords)) THEN 1 ELSE 0)
             + KeywordHits(content, Tail(keywords))

\* score = 1.0 in place of score += 1.0
SimpleKeywordScoreAnyHit(content, keywords) ==
    <<Min(KeywordHits(content, keywords), 1), Max(TextWords(content), 1)>>

simple_keyword_score(content, keywords) ==
    <<KeywordHits(content, keywords), Max(TextWords(content), 1)>>

\* tokens that survive preprocess_text: alphabetic, longer than two
\* characters, no stop word
SurvivesPreprocess(w) == w \notin {"is", "it", "has", "the", "2024"}

\* whether preprocess_text(content) is a non-empty string
PreprocessNonEmpty(content) ==
    \E i \in 1..Len(content) : \E j \in 1..Len(content[i].runs) :
        SurvivesPreprocess(Lower(content[i].runs[j][1]))

ScoreMinContentLen == 50

\* the sections that enter the TF-IDF corpus (lines 358-364), as indices
ValidIndices(secs) ==
    {i \in 1..Len(secs) : /\ TextLen(Strip(secs[i].content)) > ScoreMinContentLen
                          /\ PreprocessNonEmpty(secs[i].content)}

\* position of index i among the valid ones
ValidRank(secs, i) == Cardinality({k \in ValidIndices(secs) : k <= i})

\* The vectorizer and cosine_similarity are library code: `tfidf` is what
\* they do on this corpus: an exception, or the similarities of the valid
\* sections, each k / MaxScore.
TfidfOutcomes(secs) ==
    {[raise |-> TRUE, sims |-> <<>>]}
    \cup {[raise |-> FALSE, sims |-> f] :
             f \in [1..Cardinality(ValidIndices(secs)) -> 0..MaxScore]}

calculate_relevance_scores(secs, p, j, tfidf) ==
    IF ValidIndices(secs) = {} THEN secs
    ELSE IF tfidf.raise
    THEN [i \in 1..Len(secs) |->
            [secs[i] EXCEPT !.relevance_score =
                simple_keyword_score(secs[i].content, QueryParts(p, j))]]
    ELSE [i \in 1..Len(secs) |->
            IF i \in ValidIndices(secs)
            THEN [secs[i] EXCEPT !.relevance_score = <<tfidf.sims[ValidRank(secs, i)], MaxScore>>]
            ELSE IF HasScore(secs[i]) THEN secs[i]
            ELSE [secs[i] EXCEPT !.relevance_score = <<0, 1>>]]

-----------------------------------------------------------------------------
(* rank_sections *)

RECURSIVE InsertDesc(_, _)
\* place x behind every element whose score is not smaller: a stable
\* descending order, as sorted(..., reverse=True) gives
InsertDesc(sorted, x) ==
    IF sorted = <<>> THEN <<x>>
    ELSE IF ScoreGE(Head(sorted).relevance_score, x.relevance_score)
         THEN <<Head(sorted)>> \o InsertDesc(Tail(sorted), x)
         ELSE <<x>> \o sorted

RECURSIVE InsertDescUnstable(_, _)
InsertDescUnstable(sorted, x) ==
    IF sorted = <<>> THEN <<x>>
    ELSE IF ScoreGT(Head(sorted).relevance_score, x.relevance_score)
         THEN <<Head(sorted)>> \o InsertDescUnstable(Tail(sorted), x)
         ELSE <<x>> \o sorted

RECURSIVE SortedDescFrom(_, _, _)
SortedDescFrom(s, i, acc) ==
    IF i > Len(s) THEN acc ELSE SortedDescFrom(s, i + 1, InsertDesc(acc, s[i]))

RECURSIVE SortedDescUnstableFrom(_, _, _)
SortedDescUnstableFrom(s, i, acc) ==
    IF i > Len(s) THEN acc
    ELSE SortedDescUnstableFrom(s, i + 1, InsertDescUnstable(acc, s[i]))

\* a sort that turns ties around (an ascending sort, reversed)
SortedByScoreDescReversingTies(s) == SortedDescUnstableFrom(s, 1, <<>>)

\* sorted(s, key=lambda x: x['relevance_score'], reverse=True)
SortedByScoreDesc(s) == SortedDescFrom(s, 1, <<>>)

RankMinContentLen == 100

\* a filter that lets bodies of exactly 100 characters through
RankValidFrom100(s) == TextLen(Strip(s.content)) >= RankMinContentLen

RankValid(s) == TextLen(Strip(s.content)) > RankMinContentLen

\* the sort reads x['relevance_score'] of every kept section
RankRaises(secs) == \E i \in 1..Len(secs) : RankValid(secs[i]) /\ ~HasScore(secs[i])

rank_sections(secs) == SortedByScoreDesc(SelectSeq(secs, RankValid))

-----------------------------------------------------------------------------
(* extract_subsections *)

TopN == 5
MinSentenceLen == 20
MaxExcerptWords == 150
MaxExcerptSentences == 5
MinExcerptLen == 100
TopUpLen == 200
ExcerptCap == 500

RECURSIVE SentTok(_, _)
\* a sentence ends with the piece that carries a full stop; whitespace between
\* sentences is dropped, text after the last full stop is a sentence of its own
SentTok(t, cur) ==
    IF t = <<>> THEN (IF Strip(cur) = <<>> THEN <<>> ELSE <<Strip(cur)>>)
    ELSE IF IsBlank(Head(t)) /\ cur = <<>> THEN SentTok(Tail(t), cur)
    ELSE IF Head(t).dot THEN <<Append(cur, Head(t))>> \o SentTok(Tail(t), <<>>)
    ELSE SentTok(Tail(t), Append(cur, Head(t)))

\* nltk's sent_tokenize(content)
sent_tokenize(t) == SentTok(t, <<>>)

RECURSIVE SumTextLen(_, _)
SumTextLen(ss, parts) ==
    IF parts = <<>> THEN 0 ELSE TextLen(ss[Head(parts)]) + SumTextLen(ss, Tail(parts))

\* len of the sentences ss[parts[1]], ss[parts[2]], ... joined by single
\* spaces, behind `lead` leading spaces
JoinedLen(ss, parts, lead) ==
    IF parts = <<>> THEN 0 ELSE lead + SumTextLen(ss, parts) + Len(parts) - 1

RECURSIVE Accumulate(_, _, _, _)
\* the loop of lines 445-453: refined_sentences as indices into sentences
Accumulate(ss, i, refined, wc) ==
    IF i > Len(ss) THEN refined
    ELSE IF TextLen(ss[i]) > MinSentenceLen
         THEN IF wc + TextWords(ss[i]) > MaxExcerptWords
                  \/ Len(refined) + 1 >= MaxExcerptSentences
              THEN Append(refined, i)
              ELSE Accumulate(ss, i + 1, Append(refined, i), wc + TextWords(ss[i]))
         ELSE Accumulate(ss, i + 1, refined, wc)

RECURSIVE TopUp(_, _, _, _)
\* the loop of lines 460-465 over sentences[len(refined_sentences):]
TopUp(ss, j, parts, lead) ==
    IF j > Len(ss) THEN parts
    ELSE IF JoinedLen(ss, Append(parts, j), lead) > TopUpLen
         THEN Append(parts, j)
         ELSE TopUp(ss, j + 1, Append(parts, j), lead)

\* the excerpt before truncation: the sentences it is made of, as indices into
\* sent_tokenize(content), and the number of leading spaces
RefinedParts(content) ==
    LET ss == sent_tokenize(content)
        refined == Accumulate(ss, 1, <<>>, 0)
        lead == IF refined = <<>> THEN 1 ELSE 0
    IN  IF JoinedLen(ss, refined, 0) < MinExcerptLen /\ Len(ss) > Len(refined)
        THEN [parts |-> TopUp(ss, Len(refined) + 1, refined, lead), lead |-> lead]
        ELSE [parts |-> refined, lead |-> 0]

\* a slice text[:n] keeps min(len(text), n) characters
SliceLenUncapped(len, n) == len

SliceLen(len, n) == Min(len, n)

\* refined_text[:500]: the parts, and how many characters of them are kept
RefinedText(content) ==
    LET r == RefinedParts(content)
    IN  [parts |-> r.parts, lead |-> r.lead,
         chars |-> SliceLen(JoinedLen(sent_tokenize(content), r.parts, r.lead),
                            ExcerptCap)]

Subsection(s) ==
    [document |-> s.document, page_number |-> s.page_number,
     section_title |-> s.section_title, refined_text |-> RefinedText(s.content),
     relevance_score |-> s.relevance_score]

\* a slice that keeps the whole list
FirstNUnbounded(secs, n) == secs

\* sections[:top_n]
FirstN(secs, n) == SubSeq(secs, 1, Min(Len(secs), n))

extract_subsections(secs, top_n) ==
    [i \in 1..Len(FirstN(secs, top_n)) |-> Subsection(secs[i])]

-----------------------------------------------------------------------------
(* Section dictionaries *)

Scored(s, score) == [s EXCEPT !.relevance_score = score]

\* the i-th of a family of distinct titles
TitleN(i) == Line(<<<<"Tips", i>>>>)

\* 100 and 101 characters: the two sides of the ranker's length filter
Text100 == <<Sent(<<<<"lorem", 15>>, <<"beautiful", 1>>>>)>>

Text101 == <<Sent(<<<<"lorem", 16>>, <<"many", 1>>>>)>>

-----------------------------------------------------------------------------
(* rank_sections applied to any list of sections *)

RankScores == {<<k, MaxScore>> : k \in 0..MaxScore} \cup {NoScore}

RankInput(n) ==
    {f \in [1..n -> {Text100, Text101} \X RankScores] : TRUE}

RankSections(f) ==
    [i \in DOMAIN f |-> Scored(Section("doc1.pdf", 1, TitleN(i), f[i][1]), f[i][2])]

InitRank ==
    /\ pc = "call_rank_sections"
    /\ \E n \in 0..MaxSections : \E f \in RankInput(n) : sections = RankSections(f)
    /\ result = <<>>
    /\ doc_content = NoDocument
    /\ hashseed = 0
    /\ persona = DefaultPersona
    /\ job = DefaultJob
    /\ log = {}
    /\ DriverIdle

RankCall ==
    /\ pc = "call_rank_sections"
    /\ IF RankRaises(sections)
       THEN pc' = "raise_KeyError" /\ result' = <<>>
       ELSE pc' = "ret_rank_sections" /\ result' = rank_sections(sections)
    /\ UNCHANGED <<sections, doc_content, hashseed, persona, job, log, driver>>

NextRank == RankCall

SpecRank == InitRank /\ [][NextRank]_vars

\* position of a section in the list it was taken from
IndexIn(secs, s) == CHOOSE k \in 1..Len(secs) : secs[k] = s

\* C1: the ranker's output is in non-increasing score order, and sections of
\* equal score keep the relative order they had in the input
C1_RankSortedStable ==
    pc = "ret_rank_sections" =>
        \A i, j \in 1..Len(result) : i < j =>
            /\ ScoreGE(result[i].relevance_score, result[j].relevance_score)
            /\ ScoreEq(result[i].relevance_score, result[j].relevance_score)
                   => IndexIn(sections, result[i]) < IndexIn(sections, result[j])

\* a ranked list with a tie and with a strict descent
C1_Witness ==
    /\ pc = "ret_rank_sections"
    /\ \E i, j \in 1..Len(result) :
           /\ i < j
           /\ ScoreEq(result[i].relevance_score, result[j].relevance_score)
    /\ \E i, j \in 1..Len(result) :
           /\ i < j
           /\ ScoreGT(result[i].relevance_score, result[j].relevance_score)
           /\ IndexIn(sections, result[i]) > IndexIn(sections, result[j])

-----------------------------------------------------------------------------
(* extract_subsections applied to any list of sections *)

\* "Paris is beautiful. It has many museums. The food is excellent.
\* Transport is easy."
ParisBody ==
    <<Sent(<<<<"Paris", 1>>, <<"is", 1>>, <<"beautiful", 1>>>>),
      Sent(<<<<"It", 1>>, <<"has", 1>>, <<"many", 1>>, <<"museums", 1>>>>),
      Sent(<<<<"The", 1>>, <<"food", 1>>, <<"is", 1>>, <<"excellent", 1>>>>),
      Sent(<<<<"Transport", 1>>, <<"is", 1>>, <<"easy", 1>>>>)>>

\* sentences of 20 and 22 characters, of 150 characters in 25 words, and of
\* 456 characters in 76 words
SentenceKinds ==
    {Sent(<<<<"It", 1>>, <<"has", 1>>, <<"many", 1>>, <<"museums", 1>>>>),
     Sent(<<<<"The", 1>>, <<"food", 1>>, <<"is", 1>>, <<"excellent", 1>>>>),
     Sent(<<<<"lorem", 25>>>>),
     Sent(<<<<"ipsum", 76>>>>)}

RefineTexts == SeqsUpTo(SentenceKinds, MaxSentences) \cup {ParisBody}

RefineInputs ==
    {<<Scored(Section("doc1.pdf", 1, TitleN(1), c), <<1, MaxScore>>)>> : c \in RefineTexts}
    \cup {[i \in 1..n |-> Scored(Section("doc1.pdf", i, TitleN(i), ParisBody), <<1, MaxScore>>)]
            : n \in 0..(TopN + 1)}

InitRefine ==
    /\ pc = "call_extract_subsections"
    /\ sections \in RefineInputs
    /\ result = <<>>
    /\ doc_content = NoDocument
    /\ hashseed = 0
    /\ persona = DefaultPersona
    /\ job = DefaultJob
    /\ log = {}
    /\ DriverIdle

RefineCall ==
    /\ pc = "call_extract_subsections"
    /\ pc' = "ret_extract_subsections"
    /\ result' = extract_subsections(sections, TopN)
    /\ UNCHANGED <<sections, doc_content, hashseed, persona, job, log, driver>>

NextRefine == RefineCall

SpecRefine == InitRefine /\ [][NextRefine]_vars

\* len(refined_text) before the slice
UncutLen(content) ==
    JoinedLen(sent_tokenize(content), RefinedParts(content).parts,
              RefinedParts(content).lead)

\* C3: every refined_text is at most 500 characters long, whatever the body
\* and the branch taken; a body under the cap gives no excerpt over the cap
C3_ExcerptWithinCap ==
    pc = "ret_extract_subsections" =>
        \A i \in 1..Len(result) : result[i].refined_text.chars <= 500

\* an excerpt cut by the slice, one from the top-up branch, and one from a
\* body shorter than the cap
C3_Witness ==
    /\ pc = "ret_extract_subsections"
    /\ Len(result) = 1
    /\ UncutLen(sections[1].content) > 500
    /\ result[1].refined_text.chars = 500

C3_WitnessTopUp ==
    /\ pc = "ret_extract_subsections"
    /\ Len(result) = 1
    /\ TextLen(sections[1].content) < 500
    /\ result[1].refined_text.chars > TextLen(sections[1].content)

\* C8: the four-sentence body gives exactly its first three sentences, in
\* order, joined by single spaces, within 500 characters
C8_FirstThreeSentences ==
    (pc = "ret_extract_subsections" /\ Len(result) >= 1
        /\ sections[1].content = ParisBody) =>
        /\ result[1].refined_text.parts = <<1, 2, 3>>
        /\ result[1].refined_text.lead = 0
        /\ result[1].refined_text.chars <= 500

\* what the code returns for that body: sentence 3, then sentences 2, 3, 4
C8_Observed ==
    /\ pc = "ret_extract_subsections"
    /\ Len(result) = 1
    /\ sections[1].content = ParisBody
    /\ result[1].refined_text = [parts |-> <<3, 2, 3, 4>>, lead |-> 0, chars |-> 85]

-----------------------------------------------------------------------------
(* deduplicate_and_filter_sections applied to any list of sections *)

\* bodies of 60, 50 and 49 words: two that agree on their first 50 words, two
\* with the same words in another order, two below the word minimum
DedupTexts ==
    {<<Line(<<<<"lorem", 50>>, <<"ipsum", 10>>>>)>>,
     <<Line(<<<<"lorem", 50>>, <<"has", 10>>>>)>>,
     <<Line(<<<<"Lorem", 25>>, <<"ipsum", 25>>>>)>>,
     <<Line(<<<<"ipsum", 25>>, <<"lorem", 25>>>>)>>,
     <<Line(<<<<"lorem", 49>>>>)>>,
     <<Line(<<<<"ipsum", 49>>>>)>>,
     <<Line(<<<<"food", 60>>>>)>>}

DedupInputs ==
    UNION {{[i \in 1..n |-> Section("doc1.pdf", 1, TitleN(i), f[i])] :
              f \in [1..n -> DedupTexts]} : n \in 0..MaxSections}

InitDedup ==
    /\ pc = "call_deduplicate_and_filter_sections"
    /\ sections \in DedupInputs
    /\ result = <<>>
    /\ doc_content = NoDocument
    /\ hashseed \in HashSeeds
    /\ persona = DefaultPersona
    /\ job = DefaultJob
    /\ log = {}
    /\ DriverIdle

DedupCall ==
    /\ pc = "call_deduplicate_and_filter_sections"
    /\ pc' = "ret_deduplicate_and_filter_sections"
    /\ result' = deduplicate_and_filter_sections(sections, hashseed)
    /\ UNCHANGED <<sections, doc_content, hashseed, persona, job, log, driver>>

NextDedup == DedupCall

SpecDedup == InitDedup /\ [][NextDedup]_vars

\* C4: the filter applied to its own output returns that output unchanged
C4_DedupIdempotent ==
    pc = "ret_deduplicate_and_filter_sections" =>
        deduplicate_and_filter_sections(result, hashseed) = result

\* a run in which the filter removed a duplicate and a short section and kept
\* at least two sections
C4_Witness ==
    /\ pc = "ret_deduplicate_and_filter_sections"
    /\ Len(result) >= 2
    /\ Len(result) < Len(sections)

RECURSIVE KeptFrom(_, _, _)
\* the sections the amended claim keeps, in input order
KeptFrom(secs, i, seed) ==
    IF i > Len(secs) THEN <<>>
    ELSE (IF /\ secs[i].word_count >= 50
             /\ \A j \in 1..(i - 1) :
                   ContentHash(secs[j], seed) # ContentHash(secs[i], seed)
          THEN <<secs[i]>> ELSE <<>>) \o KeptFrom(secs, i + 1, seed)

\* C5 (amended): the key is the hash of the set of distinct lower-cased tokens
\* among the first 50 body tokens; the output is, in input order, exactly the
\* sections of at least 50 words whose key no earlier section has
C5_DedupBySetKey ==
    pc = "ret_deduplicate_and_filter_sections" =>
        result = KeptFrom(sections, 1, hashseed)

\* two sections with the same first-50 token set in different orders, the
\* second removed; and a short first occurrence taking its duplicate with it
C5_Witness ==
    /\ pc = "ret_deduplicate_and_filter_sections"
    /\ hashseed = 0
    /\ Len(sections) = 3
    /\ ContentWords(sections[1].content) = ContentWords(sections[2].content)
    /\ ContentWordsAsSequence(sections[1].content)
           # ContentWordsAsSequence(sections[2].content)
    /\ Len(result) = 2

\* C5 (as stated): keyed by the first 50 lower-cased tokens, a section of at
\* least 50 words whose key differs from every earlier section's key survives
C5_DedupBySequenceKey ==
    (pc = "ret_deduplicate_and_filter_sections" /\ hashseed = 0) =>
        \A i \in 1..Len(sections) :
            (/\ sections[i].word_count >= 50
             /\ \A j \in 1..(i - 1) :
                   ContentWordsAsSequence(sections[j].content)
                       # ContentWordsAsSequence(sections[i].content))
            => \E k \in 1..Len(result) : result[k] = sections[i]

-----------------------------------------------------------------------------
(* calculate_relevance_scores applied to pairs of a base section and the   *)
(* same section with the words "budget group friends" added                *)

WithWords(content) ==
    content \o <<Line(<<<<"budget", 1>>, <<"group", 1>>, <<"friends", 1>>>>)>>

\* base bodies that hold none of the three words
BaseTexts ==
    {<<>>,
     <<Line(<<<<"plan", 1>>>>)>>,
     <<Line(<<<<"lorem", 1>>>>)>>,
     <<Line(<<<<"fun", 1>>, <<"trip", 1>>, <<"plan", 1>>>>)>>,
     <<Line(<<<<"fun", 1>>, <<"trip", 1>>, <<"plan", 1>>, <<"lorem", 2>>>>)>>,
     <<Line(<<<<"lorem", 60>>>>)>>,
     <<Line(<<<<"is", 30>>>>)>>}

\* a body that enters the corpus, so that the vectorizer is reached
Filler == <<Sent(<<<<"museums", 20>>>>)>>

ScoreInputs ==
    UNION {{<<Section("doc1.pdf", 1, TitleN(1), b),
              Section("doc1.pdf", 1, TitleN(2), WithWords(b))>>,
            <<Section("doc1.pdf", 1, TitleN(1), b),
              Section("doc1.pdf", 1, TitleN(2), WithWords(b)),
              Section("doc1.pdf", 2, TitleN(3), Filler)>>} : b \in BaseTexts}
    \cup {<<>>}

InitScore ==
    /\ pc = "call_calculate_relevance_scores"
    /\ sections \in ScoreInputs
    /\ result = <<>>
    /\ doc_content = NoDocument
    /\ hashseed = 0
    /\ persona \in {DefaultPersona, OtherPersona}
    /\ job \in {DefaultJob, ScenarioJob, OtherJob}
    /\ log = {}
    /\ DriverIdle

ScoreCall ==
    /\ pc = "call_calculate_relevance_scores"
    /\ pc' = "ret_calculate_relevance_scores"
    /\ \E tfidf \in TfidfOutcomes(sections) :
          /\ result' = calculate_relevance_scores(sections, persona, job, tfidf)
          /\ log' = IF ValidIndices(sections) # {} /\ tfidf.raise
                    THEN log \cup {<<"warning", "Error in TF-IDF calculation">>}
                    ELSE log
    /\ UNCHANGED <<sections, doc_content, hashseed, persona, job, driver>>

NextScore == ScoreCall

SpecScore == InitScore /\ [][NextScore]_vars

FallbackTaken == <<"warning", "Error in TF-IDF calculation">> \in log

ScenarioQuery == persona = "Travel Planner" /\ job = "Plan a trip for college friends"

\* C9 (amended): under the keyword fallback and the scenario's query, the
\* section with "budget", "group", "friends" added scores strictly higher
\* than the base section whenever the base has more words than keyword hits
C9_AddedWordsScoreHigher ==
    (/\ pc = "ret_calculate_relevance_scores"
     /\ FallbackTaken /\ ScenarioQuery
     /\ TextWords(sections[1].content)
            > KeywordHits(sections[1].content, QueryParts(persona, job)))
    => ScoreGT(result[2].relevance_score, result[1].relevance_score)

\* a base with keyword hits, fewer than its words, scored by the fallback
C9_Witness ==
    /\ pc = "ret_calculate_relevance_scores"
    /\ FallbackTaken /\ ScenarioQuery
    /\ KeywordHits(sections[1].content, QueryParts(persona, job)) = 4
    /\ TextWords(sections[1].content) = 5
    /\ result[1].relevance_score = <<4, 5>>
    /\ result[2].relevance_score = <<7, 8>>

\* C9 (as stated): for every base section text
C9_AddedWordsScoreHigherAlways ==
    (/\ pc = "ret_calculate_relevance_scores"
     /\ FallbackTaken /\ ScenarioQuery)
    => ScoreGT(result[2].relevance_score, result[1].relevance_score)

-----------------------------------------------------------------------------
(* extract_sections_by_content applied to any document, line by line *)

\* Page texts: a heading with its body in one paragraph; a heading in a
\* paragraph of its own; a short page; a long page without heading and
\* without final newline; a heading with punctuation; an empty page; a page
\* that opens with an empty line and has no heading.
PageHeadingBody ==
    <<Line(<<<<"Budget", 1>>, <<"Tips", 1>>>>), Sent(<<<<"lorem", 60>>>>), Blank>>

PageHeadingAlone ==
    <<Line(<<<<"Paris", 1>>, <<"museums", 1>>>>), Blank, Sent(<<<<"ipsum", 55>>>>), Blank>>

PageShort == <<Sent(<<<<"The", 1>>, <<"food", 1>>, <<"is", 1>>, <<"excellent", 1>>>>)>>

PageLodging == <<Sent(<<<<"lodging", 30>>, <<"hotels", 30>>>>)>>

PagePunctHeading ==
    <<Line(<<<<"Nice,", 1>>, <<"Paris", 1>>>>), Sent(<<<<"museums", 60>>>>), Blank>>

PageEmpty == <<>>

PagePreamble ==
    <<Blank, Line(<<<<"2024", 1>>, <<"budget", 1>>>>),
      Sent(<<<<"beach", 30>>, <<"coast", 30>>>>), Blank>>

PageTexts ==
    {PageHeadingBody, PageHeadingAlone, PageShort, PageLodging, PagePunctHeading,
     PageEmpty, PagePreamble}

SegmentInputs ==
    {DocContent("doc1.pdf", texts) : texts \in SeqsUpTo(PageTexts, MaxPages)}

InitSegment ==
    /\ pc = "call_extract_sections_by_content"
    /\ doc_content \in SegmentInputs
    /\ sections = <<>>
    /\ result = <<>>
    /\ hashseed \in HashSeeds
    /\ persona = DefaultPersona
    /\ job = DefaultJob
    /\ log = {}
    /\ DriverIdle

\* lines 75-129
SegHeadingPass ==
    /\ pc = "call_extract_sections_by_content"
    /\ pc' = "line_131"
    /\ sections' = HeadingSections(doc_content)
    /\ UNCHANGED <<result, doc_content, hashseed, persona, job, log, driver>>

\* lines 131-133
SegFallback ==
    /\ pc = "line_131"
    /\ pc' = "line_135"
    /\ sections' = AfterFallback(sections, doc_content)
    /\ UNCHANGED <<result, doc_content, hashseed, persona, job, log, driver>>

\* lines 135-137
SegTravel ==
    /\ pc = "line_135"
    /\ pc' = "line_139"
    /\ sections' = AfterTravel(sections, doc_content)
    /\ UNCHANGED <<result, doc_content, hashseed, persona, job, log, driver>>

\* lines 139-142
SegDedup ==
    /\ pc = "line_139"
    /\ pc' = "ret_extract_sections_by_content"
    /\ sections' = deduplicate_and_filter_sections(sections, hashseed)
    /\ result' = deduplicate_and_filter_sections(sections, hashseed)
    /\ UNCHANGED <<doc_content, hashseed, persona, job, log, driver>>

NextSegment == SegHeadingPass \/ SegFallback \/ SegTravel \/ SegDedup

SpecSegment == InitSegment /\ [][NextSegment]_vars

FallbackUsed == Len(HeadingSections(doc_content)) < MinSections

SectionsOfPage(secs, n) == {i \in 1..Len(secs) : secs[i].page_number = n}

\* the title the fallback gives page n with stripped text `content`
ExpectedPageTitle(content, n) ==
    LET cands == {i \in 1..Min(10, Len(content)) :
                     /\ TitleLikeLine(content[i])
                     /\ PieceLen(CleanLine(content[i])) > 10}
    IN  IF cands = {} THEN PageNContent(n)
        ELSE CleanLine(content[CHOOSE i \in cands : \A k \in cands : i <= k])

\* C6 (amended): when the heading pass yields fewer than 3 sections, the
\* fallback yields, in page order, exactly one section for each page whose
\* stripped text has at least 100 characters and none for any other page;
\* the section carries the page's number and stripped text and is titled by
\* the page's first title-like line or "Page N Content"
C6_FallbackOnePerLongPage ==
    (pc = "line_135" /\ FallbackUsed) =>
        /\ \A n \in 1..Len(doc_content.pages) :
              Cardinality(SectionsOfPage(sections, n))
                  = IF TextLen(Strip(doc_content.pages[n].text)) >= 100 THEN 1 ELSE 0
        /\ \A i \in 1..Len(sections) :
              /\ sections[i].page_number \in 1..Len(doc_content.pages)
              /\ sections[i].document = doc_content.filename
              /\ sections[i].content = Strip(doc_content.pages[sections[i].page_number].text)
              /\ sections[i].section_title
                     = ExpectedPageTitle(sections[i].content, sections[i].page_number)
              /\ sections[i].section_title # NoTitle
        /\ \A i, j \in 1..Len(sections) :
              i < j => sections[i].page_number < sections[j].page_number

\* a fallback over a long page with a title line, a long page without one
\* and a short page with text
C6_Witness ==
    /\ pc = "line_135" /\ FallbackUsed
    /\ Len(doc_content.pages) = 3
    /\ Len(sections) = 2
    /\ \E i, j \in 1..2 :
          /\ sections[i].section_title = PageNContent(sections[i].page_number)
          /\ sections[j].section_title # PageNContent(sections[j].page_number)
    /\ \E n \in 1..3 : /\ TextLen(Strip(doc_content.pages[n].text)) > 0
                       /\ SectionsOfPage(sections, n) = {}

\* C6 (as stated): exactly one section for each page with non-empty text
C6_FallbackOnePerNonEmptyPage ==
    (pc = "line_135" /\ FallbackUsed) =>
        \A n \in 1..Len(doc_content.pages) :
            TextLen(Strip(doc_content.pages[n].text)) > 0
                => Cardinality(SectionsOfPage(sections, n)) = 1

\* the paragraphs of the document and those that open with a heading-like line
DocParas == Paragraphs(doc_content.full_text)

TitleParas == {p \in 1..Len(DocParas) : is_section_title(DocParas[p][1], DocParas[p])}

NextTitlePara(p) ==
    IF \E q \in TitleParas : q > p
    THEN CHOOSE q \in TitleParas : q > p /\ \A r \in TitleParas : r > p => q <= r
    ELSE Len(DocParas) + 1

\* the text under heading paragraph p: the rest of its paragraph and the
\* paragraphs up to the next heading, one per line group
BodyOf(p) ==
    Tail(DocParas[p])
        \o FlattenSeq([k \in 1..(NextTitlePara(p) - p - 1) |-> DocParas[p + k]])

\* the text before the first heading paragraph
Preamble ==
    IF TitleParas = {} THEN <<>>
    ELSE FlattenSeq([k \in 1..(NextTitlePara(0) - 1) |-> DocParas[k]])

KeyOfText(t) == PyHash(hashseed, ContentWords(t))

\* the heading paragraphs whose body is long enough to be saved
SavedTitleParas == {p \in TitleParas : TextLen(BodyOf(p)) > 100}

HeadingPassCount ==
    Cardinality(SavedTitleParas) + (IF TextLen(Preamble) > 100 THEN 1 ELSE 0)

\* heading p survives the fallback test, the word minimum and deduplication
Survives(p) ==
    /\ p \in SavedTitleParas
    /\ HeadingPassCount >= 3
    /\ TextWords(BodyOf(p)) >= 50
    /\ \A q \in SavedTitleParas : q < p => KeyOfText(BodyOf(q)) # KeyOfText(BodyOf(p))
    /\ TextLen(Preamble) > 100 => KeyOfText(Preamble) # KeyOfText(BodyOf(p))

HasSectionFor(secs, p) ==
    \E i \in 1..Len(secs) :
        /\ secs[i].section_title = DocParas[p][1]
        /\ secs[i].content = BodyOf(p)

\* C7 (amended): a heading-like first line of a paragraph gives a section
\* titled by that line verbatim in the heading pass when more than 100
\* characters of body follow it before the next heading, and that section is
\* returned when, besides, the heading pass yields 3 sections or more, the
\* body has 50 words or more and no earlier heading-pass section has its key
C7_HeadingGivesSection ==
    /\ pc = "line_131" => \A p \in SavedTitleParas : HasSectionFor(sections, p)
    /\ pc = "ret_extract_sections_by_content" =>
           \A p \in TitleParas : Survives(p) => HasSectionFor(result, p)

\* three headings returned with their bodies
C7_Witness ==
    /\ pc = "ret_extract_sections_by_content"
    /\ Cardinality({p \in TitleParas : Survives(p) /\ HasSectionFor(result, p)}) = 3

\* C7 (as stated): a document with a heading-like line returns a section
\* titled by such a line
C7_AnyHeadingGivesSection ==
    (pc = "ret_extract_sections_by_content" /\ TitleParas # {}) =>
        \E p \in TitleParas : \E i \in 1..Len(result) :
            result[i].section_title = DocParas[p][1]

-----------------------------------------------------------------------------
(* main() and process_documents *)

\* The PDF files a directory may hold: two guides of three headed pages, a
\* one-page brochure, a note too short to give a section, a file that
\* fitz cannot open, and a page of figures.
PdfKinds ==
    {[name |-> "guide (1).pdf", readable |-> TRUE,
      texts |-> <<PageHeadingBody, PageHeadingAlone, PagePunctHeading>>],
     [name |-> "cities.pdf", readable |-> TRUE,
      texts |-> <<PagePunctHeading, PageHeadingBody, PageHeadingAlone>>],
     [name |-> "hotels.pdf", readable |-> TRUE, texts |-> <<PageLodging>>],
     [name |-> "note.pdf", readable |-> TRUE, texts |-> <<PageShort>>],
     [name |-> "broken.pdf", readable |-> FALSE, texts |-> <<>>],
     [name |-> "figures.pdf", readable |-> TRUE, texts |-> <<<<Sent(<<<<"2024", 60>>>>)>>>>]}

MaxPdfFiles == 10

\* utils.validate_pdf_files: what a call would do; no code of main.py calls it
validate_pdf_files(files) ==
    IF files = <<>> \/ Len(files) > MaxPdfFiles THEN "raise_ValueError" ELSE "return"

BrochureName(i) == "brochure" \o ToString(i) \o ".pdf"

\* a directory of one-page brochures, one more than validate_pdf_files allows
LargeDirectory ==
    [i \in 1..(MaxPdfFiles + 1) |->
        [name |-> BrochureName(i), readable |-> TRUE, texts |-> <<PageLodging>>]]

\* what glob("*.pdf") may return: distinct files in any order
Directories ==
    {d \in SeqsUpTo(PdfKinds, MaxPdfs) :
        \A i, k \in 1..Len(d) : i # k => d[i].name # d[k].name}
    \cup {LargeDirectory}

\* doc.replace(' (1)', '')
CleanName(doc) == IF doc = "guide (1).pdf" THEN "guide.pdf" ELSE doc

\* a check that lets every directory through
NoPdfFilesIgnored(files) == FALSE

\* `not pdf_files`
NoPdfFiles(files) == files = <<>>

\* a rank that repeats the enumerate index
ImportanceRankFromZero(i) == i

\* "importance_rank": idx + 1
ImportanceRank(i) == i + 1

OutputSections == 5

\* the list comprehension of lines 521-529; enumerate counts from 0
ExtractedSections(ranked) ==
    [i \in 1..Min(Len(ranked), OutputSections) |->
        [document |-> CleanName(ranked[i].document),
         section_title |-> ranked[i].section_title,
         importance_rank |-> ImportanceRank(i - 1),
         page_number |-> ranked[i].page_number]]

\* the list comprehension of lines 530-537
SubsectionAnalysis(top_subsections) ==
    [i \in 1..Len(top_subsections) |->
        [document |-> CleanName(top_subsections[i].document),
         refined_text |-> top_subsections[i].refined_text,
         page_number |-> top_subsections[i].page_number]]

\* the dictionary of lines 514-538, the timestamp left out
Output(ranked, docs, p, j) ==
    [metadata |-> [input_documents |-> [i \in 1..Len(docs) |-> CleanName(docs[i])],
                   persona |-> p, job_to_be_done |-> j],
     extracted_sections |-> ExtractedSections(ranked),
     subsection_analysis |-> SubsectionAnalysis(extract_subsections(ranked, TopN))]

\* the similarities the library may return in a run of the whole program:
\* an exception, or the i-th valid section at (i * m mod (MaxScore + 1)) / MaxScore
TfidfPatterns(secs) ==
    {[raise |-> TRUE, sims |-> <<>>]}
    \cup {[raise |-> FALSE,
           sims |-> [i \in 1..Cardinality(ValidIndices(secs)) |-> (i * m) % (MaxScore + 1)]] :
             m \in 0..MaxScore}

\* The persona and job sources.  Absent marks a file or a JSON key that is
\* not there, Unreadable a file that open() or read() rejects.
Absent == "(absent)"

Unreadable == "(unreadable)"

NoJson == [exists |-> FALSE, loads |-> FALSE, role |-> Absent, task |-> Absent]

\* challenge1b_input.json that json.load rejects
BadJson == [exists |-> TRUE, loads |-> FALSE, role |-> Absent, task |-> Absent]

\* challenge1b_input.json with the given persona.role and job_to_be_done.task
Json(role, task) == [exists |-> TRUE, loads |-> TRUE, role |-> role, task |-> task]

PersonaTxt == "Food Contractor\n"

JobTxt == "Plan a trip for college friends\n"

Configs ==
    {[json |-> NoJson, persona_txt |-> p, job_txt |-> j] :
         p \in {Absent, PersonaTxt}, j \in {Absent, JobTxt}}
    \cup {[json |-> NoJson, persona_txt |-> Unreadable, job_txt |-> Absent]}
    \cup {[json |-> BadJson, persona_txt |-> PersonaTxt, job_txt |-> JobTxt]}
    \cup {[json |-> Json(r, t), persona_txt |-> Absent, job_txt |-> Absent] :
              r \in {Absent, OtherPersona}, t \in {Absent, ScenarioJob}}
    \cup {[json |-> Json(Absent, Absent), persona_txt |-> PersonaTxt, job_txt |-> JobTxt]}

\* f.read().strip() of the text files of the model
StripString(content) ==
    CASE content = PersonaTxt -> OtherPersona
      [] content = JobTxt -> ScenarioJob
      [] OTHER -> content

\* a persona left unset where its source is absent
PersonaFromNoDefault(cfg) ==
    IF cfg.json.exists
    THEN (IF cfg.json.loads /\ cfg.json.role # Absent THEN cfg.json.role ELSE "")
    ELSE IF cfg.persona_txt # Absent THEN StripString(cfg.persona_txt) ELSE ""

\* lines 562, 565-572 and 583-588
PersonaFrom(cfg) ==
    IF cfg.json.exists
    THEN (IF cfg.json.loads /\ cfg.json.role # Absent THEN cfg.json.role
          ELSE DefaultPersona)
    ELSE IF cfg.persona_txt # Absent THEN StripString(cfg.persona_txt)
         ELSE DefaultPersona

\* lines 563, 565-575 and 584-592
JobFrom(cfg) ==
    IF cfg.json.exists
    THEN (IF cfg.json.loads /\ cfg.json.task # Absent THEN cfg.json.task ELSE DefaultJob)
    ELSE IF cfg.job_txt # Absent THEN StripString(cfg.job_txt)
         ELSE DefaultJob

\* the else branch of line 581 stands outside the try of line 566
ConfigRaises(cfg) ==
    ~cfg.json.exists /\ Unreadable \in {cfg.persona_txt, cfg.job_txt}

\* lines 577 and 580
ConfigLog(cfg) ==
    IF ~cfg.json.exists THEN {}
    ELSE IF cfg.json.loads THEN {<<"info", "Loaded from JSON">>}
    ELSE {<<"warning", "Could not read input JSON file">>}

Init ==
    /\ pc = "main"
    /\ pdf_files \in Directories
    /\ hashseed \in HashSeeds
    /\ persona = DefaultPersona
    /\ job = DefaultJob
    /\ config \in Configs
    /\ idx = 0
    /\ all_sections = <<>>
    /\ document_info = <<>>
    /\ sections = <<>>
    /\ ranked_sections = <<>>
    /\ result = <<>>
    /\ doc_content = NoDocument
    /\ output = <<>>
    /\ output_file = <<>>
    /\ exit_code = -1
    /\ log = {}

\* main, lines 560-592 reading an unreadable persona.txt: the exception
\* leaves the inner try untouched and reaches line 610
MainSetupRaises ==
    /\ pc = "main"
    /\ ConfigRaises(config)
    /\ pc' = "raise_OSError"
    /\ UNCHANGED <<sections, result, doc_content, hashseed, persona, job, log, driver>>

\* main, lines 547-601
MainSetup ==
    /\ pc = "main"
    /\ ~ConfigRaises(config)
    /\ pc' = "line_482"
    /\ persona' = PersonaFrom(config)
    /\ job' = JobFrom(config)
    /\ log' = log \cup ConfigLog(config) \cup {<<"info", "Starting document processing">>}
    /\ UNCHANGED <<sections, result, doc_content, hashseed, driver>>

\* lines 482-484
GlobEmpty ==
    /\ pc = "line_482"
    /\ NoPdfFiles(pdf_files)
    /\ pc' = "raise_ValueError"
    /\ UNCHANGED <<sections, result, doc_content, hashseed, persona, job, log, driver>>

\* lines 482-490
GlobFound ==
    /\ pc = "line_482"
    /\ ~NoPdfFiles(pdf_files)
    /\ pc' = "line_492"
    /\ idx' = 1
    /\ all_sections' = <<>>
    /\ document_info' = <<>>
    /\ log' = log \cup {<<"info", "Processing PDF files">>}
    /\ UNCHANGED <<sections, result, doc_content, hashseed, persona, job, config, pdf_files,
                   ranked_sections, output, output_file, exit_code>>

\* a loop in which the exception of fitz.open leaves process_documents
LoopUnreadableAborts ==
    /\ pc = "line_492"
    /\ idx <= Len(pdf_files)
    /\ ~pdf_files[idx].readable
    /\ pc' = "raise_FileDataError"
    /\ UNCHANGED <<sections, result, doc_content, hashseed, persona, job, log, driver>>

\* lines 492-496 with extract_text_from_pdf returning None (lines 69-71)
LoopUnreadable ==
    /\ pc = "line_492"
    /\ idx <= Len(pdf_files)
    /\ ~pdf_files[idx].readable
    /\ doc_content' = NoDocument
    /\ idx' = idx + 1
    /\ log' = log \cup {<<"info", "Processing file">>, <<"error", "Error extracting text">>}
    /\ UNCHANGED <<pc, sections, result, hashseed, persona, job, config, pdf_files, all_sections,
                   document_info, ranked_sections, output, output_file, exit_code>>

\* lines 492-499
LoopReadable ==
    /\ pc = "line_492"
    /\ idx <= Len(pdf_files)
    /\ pdf_files[idx].readable
    /\ doc_content' = DocContent(pdf_files[idx].name, pdf_files[idx].texts)
    /\ document_info' = Append(document_info, pdf_files[idx].name)
    /\ all_sections' = all_sections
           \o extract_sections_by_content(
                  DocContent(pdf_files[idx].name, pdf_files[idx].texts), hashseed)
    /\ idx' = idx + 1
    /\ log' = log \cup {<<"info", "Processing file">>}
    /\ UNCHANGED <<pc, sections, result, hashseed, persona, job, config, pdf_files,
                   ranked_sections, output, output_file, exit_code>>

\* a scoring step taken inside the loop, after each single file
ScoreInsideLoop ==
    /\ pc = "line_492"
    /\ idx <= Len(pdf_files)
    /\ idx > 1
    /\ pc' = "line_508"
    /\ \E tfidf \in TfidfPatterns(all_sections) :
          /\ sections' = calculate_relevance_scores(all_sections, persona, job, tfidf)
          /\ log' = log \cup {<<"info", "Calculating relevance scores">>}
    /\ UNCHANGED <<result, doc_content, hashseed, persona, job, driver>>

\* lines 501-505
Score ==
    /\ pc = "line_492"
    /\ idx > Len(pdf_files)
    /\ pc' = "line_508"
    /\ \E tfidf \in TfidfPatterns(all_sections) :
          /\ sections' = calculate_relevance_scores(all_sections, persona, job, tfidf)
          /\ log' = log \cup {<<"info", "Calculating relevance scores">>}
                        \cup (IF ValidIndices(all_sections) # {} /\ tfidf.raise
                              THEN {<<"warning", "Error in TF-IDF calculation">>}
                              ELSE {})
    /\ UNCHANGED <<result, doc_content, hashseed, persona, job, driver>>

\* line 508, the sort reading a missing key
RankKeyError ==
    /\ pc = "line_508"
    /\ RankRaises(sections)
    /\ pc' = "raise_KeyError"
    /\ UNCHANGED <<sections, result, doc_content, hashseed, persona, job, log, driver>>

\* line 508
Rank ==
    /\ pc = "line_508"
    /\ ~RankRaises(sections)
    /\ pc' = "line_511"
    /\ ranked_sections' = rank_sections(sections)
    /\ UNCHANGED <<sections, result, doc_content, hashseed, persona, job, log, config, pdf_files,
                   idx, all_sections, document_info, output, output_file, exit_code>>

\* lines 511-543 and the assignment of line 601
BuildOutput ==
    /\ pc = "line_511"
    /\ pc' = "line_604"
    /\ output' = <<Output(ranked_sections, document_info, persona, job)>>
    /\ log' = log \cup {<<"info", "Processing completed">>}
    /\ UNCHANGED <<sections, result, doc_content, hashseed, persona, job, config, pdf_files, idx,
                   all_sections, document_info, ranked_sections, output_file, exit_code>>

\* lines 604-608; json.dump writes strings, integers and lists as they are
WriteOutput ==
    /\ pc = "line_604"
    /\ pc' = "return_main"
    /\ output_file' = output
    /\ log' = log \cup {<<"info", "Output saved">>}
    /\ UNCHANGED <<sections, result, doc_content, hashseed, persona, job, config, pdf_files, idx,
                   all_sections, document_info, ranked_sections, output, exit_code>>

\* main returns and the interpreter exits
MainReturn ==
    /\ pc = "return_main"
    /\ pc' = "exit"
    /\ exit_code' = 0
    /\ UNCHANGED <<sections, result, doc_content, hashseed, persona, job, log, config, pdf_files,
                   idx, all_sections, document_info, ranked_sections, output, output_file>>

\* lines 610-612
MainExcept ==
    /\ pc \in {"raise_ValueError", "raise_KeyError", "raise_OSError"}
    /\ pc' = "exit"
    /\ exit_code' = 1
    /\ log' = log \cup {<<"error", "Error in main execution">>, <<"error", pc>>}
    /\ UNCHANGED <<sections, result, doc_content, hashseed, persona, job, config, pdf_files, idx,
                   all_sections, document_info, ranked_sections, output, output_file>>

Next ==
    \/ MainSetupRaises
    \/ MainSetup
    \/ GlobEmpty
    \/ GlobFound
    \/ LoopUnreadable
    \/ LoopReadable
    \/ Score
    \/ RankKeyError
    \/ Rank
    \/ BuildOutput
    \/ WriteOutput
    \/ MainReturn
    \/ MainExcept

Spec == Init /\ [][Next]_vars

\* C2: the importance_rank values of extracted_sections are 1, 2, ..., N
\* without gap or repeat, N the number of sections emitted, and rank i is
\* carried by the i-th section of the ranking order
C2_RanksDense ==
    output # <<>> =>
        LET ex == output[1].extracted_sections
        IN  /\ Len(ex) = Min(Len(ranked_sections), 5)
            /\ {ex[i].importance_rank : i \in 1..Len(ex)} = 1..Len(ex)
            /\ \A i \in 1..Len(ex) :
                  /\ ex[i].importance_rank = i
                  /\ ex[i].section_title = ranked_sections[i].section_title
                  /\ ex[i].page_number = ranked_sections[i].page_number
                  /\ ex[i].document = CleanName(ranked_sections[i].document)

\* six sections ranked, five emitted with ranks 1..5, not all of equal score
C2_Witness ==
    /\ output_file # <<>>
    /\ Len(ranked_sections) = 6
    /\ Len(output_file[1].extracted_sections) = 5
    /\ output_file[1].extracted_sections[5].importance_rank = 5
    /\ ScoreGT(ranked_sections[1].relevance_score, ranked_sections[6].relevance_score)

C11_TooManyPdfsAborts ==
    (pdf_files # <<>> /\ validate_pdf_files(pdf_files) = "raise_ValueError") =>
        /\ pc \in {"main", "line_482", "raise_ValueError", "exit"}
        /\ doc_content = NoDocument /\ all_sections = <<>> /\ sections = <<>>
        /\ log \cap {<<"info", "Processing file">>,
                     <<"info", "Calculating relevance scores">>} = {}
        /\ output = <<>> /\ output_file = <<>>
        /\ pc = "exit" => exit_code = 1

\* what the program does with 11 files: all are processed, the output is
\* written and the exit code is 0
C11_Observed ==
    /\ Len(pdf_files) > MaxPdfFiles
    /\ pc = "exit" /\ exit_code = 0
    /\ Len(document_info) = Len(pdf_files)
    /\ Len(output_file[1].extracted_sections) = 5

\* the source of the persona is absent: neither challenge1b_input.json nor
\* persona.txt, or a JSON without persona.role
PersonaSourceAbsent(cfg) ==
    \/ ~cfg.json.exists /\ cfg.persona_txt = Absent
    \/ cfg.json.exists /\ cfg.json.loads /\ cfg.json.role = Absent

JobSourceAbsent(cfg) ==
    \/ ~cfg.json.exists /\ cfg.job_txt = Absent
    \/ cfg.json.exists /\ cfg.json.loads /\ cfg.json.task = Absent

RECURSIVE SectionsOfFiles(_, _, _)
\* the sections of the readable files among the first n, file after file
SectionsOfFiles(files, n, seed) ==
    IF n = 0 THEN <<>>
    ELSE SectionsOfFiles(files, n - 1, seed)
             \o (IF files[n].readable
                 THEN extract_sections_by_content(DocContent(files[n].name, files[n].texts),
                                                  seed)
                 ELSE <<>>)

RECURSIVE ReadableNames(_, _)
ReadableNames(files, n) ==
    IF n = 0 THEN <<>>
    ELSE ReadableNames(files, n - 1)
             \o (IF files[n].readable THEN <<files[n].name>> ELSE <<>>)

\* the positions of a run that has not left through an exception
NormalPcs ==
    {"main", "line_482", "line_492", "line_508", "line_511", "line_604", "return_main",
     "exit"}

Aborted == pc \notin NormalPcs \/ (pc = "exit" /\ exit_code # 0)

C14_EverySectionScored ==
    pc = "ret_calculate_relevance_scores" =>
        /\ Len(result) = Len(sections)
        /\ \A i \in 1..Len(result) :
              /\ HasScore(result[i])
              /\ i \notin ValidIndices(sections) => result[i].relevance_score[1] = 0

\* a list without any scorable section comes back without scores
C14_Observed ==
    /\ pc = "ret_calculate_relevance_scores"
    /\ Len(result) = 2
    /\ ValidIndices(sections) = {}
    /\ \A i \in 1..Len(result) : ~HasScore(result[i])

\* the two input errors: no PDF file, or more than validate_pdf_files allows
InputError == pdf_files = <<>> \/ Len(pdf_files) > MaxPdfFiles

\* C15: the run ends with an exit code other than 0 only for an input
\* error; after every other failure it writes its output and exits normally
C15_OnlyInputErrorIsFatal ==
    (pc = "exit" /\ ~InputError) => exit_code = 0 /\ output_file # <<>>

\* a run over a readable, non-empty directory that ends with exit code 1
\* through the KeyError of rank_sections, without output
C15_Observed ==
    /\ pc = "exit" /\ exit_code = 1
    /\ Len(pdf_files) = 2
    /\ \A k \in 1..Len(pdf_files) : pdf_files[k].readable
    /\ ~ConfigRaises(config)
    /\ <<"error", "raise_KeyError">> \in log
    /\ output_file = <<>>

\* C16: each entry of subsection_analysis is derived from a section of
\* extracted_sections of importance_rank <= 5: the two lists have the same
\* length, at most 5, and the i-th subsection has the document and
\* page_number of the section of importance_rank i
C16_SubsectionsOfTopSections ==
    output # <<>> =>
        LET ex == output[1].extracted_sections
            sa == output[1].subsection_analysis
        IN  /\ Len(sa) = Len(ex)
            /\ Len(sa) <= 5
            /\ \A i \in 1..Len(sa) :
                  /\ \E k \in 1..Len(ex) :
                        /\ ex[k].importance_rank = i
                        /\ i <= 5
                        /\ sa[i].document = ex[k].document
                        /\ sa[i].page_number = ex[k].page_number
                  /\ sa[i].refined_text = RefinedText(ranked_sections[i].content)

\* five subsections out of six ranked sections of two documents
C16_Witness ==
    /\ output_file # <<>>
    /\ Len(ranked_sections) = 6
    /\ Len(output_file[1].subsection_analysis) = 5
    /\ \E i, k \in 1..5 :
          output_file[1].subsection_analysis[i].document
              # output_file[1].subsection_analysis[k].document
    /\ output_file[1].subsection_analysis[1].refined_text.chars > 0

\* the positions of the input whose trimmed body is longer than 100 characters
LongBodied(secs) ==
    {i \in 1..Len(secs) : TextLen(Strip(secs[i].content)) > RankMinContentLen}

\* C17: rank_sections leaves out exactly the sections whose trimmed body is
\* not longer than 100 characters, whatever their score; its output holds
\* every other input section exactly once, unchanged, and nothing else
C17_RankKeepsExactlyLongBodies ==
    pc = "ret_rank_sections" =>
        /\ Len(result) = Cardinality(LongBodied(sections))
        /\ \A i \in 1..Len(sections) :
              Cardinality({k \in 1..Len(result) : result[k] = sections[i]})
                  = IF i \in LongBodied(sections) THEN 1 ELSE 0
        /\ \A k \in 1..Len(result) : \E i \in LongBodied(sections) : result[k] = sections[i]

\* a section of 100 characters with the highest score is left out, and the
\* two kept sections change places
C17_Witness ==
    /\ pc = "ret_rank_sections"
    /\ Len(sections) = 3 /\ Len(result) = 2
    /\ \E i \in 1..3 :
          /\ i \notin LongBodied(sections)
          /\ \A k \in 1..3 : ScoreGE(sections[i].relevance_score, sections[k].relevance_score)
          /\ sections[i].relevance_score[1] > 0
    /\ \E i, k \in LongBodied(sections) : i < k /\ result[1] = sections[k]

\* the pages of the document on which a line of text stands
PagesWithLine(doc, line) ==
    {n \in 1..Len(doc.pages) : \E k \in 1..Len(doc.pages[n].text) : doc.pages[n].text[k] = line}

\* C18: every section returned by extract_sections_by_content carries as
\* page_number the number of the page on which its body text begins
C18_PageNumberIsOrigin ==
    pc = "ret_extract_sections_by_content" =>
        \A i \in 1..Len(result) :
            result[i].page_number \in PagesWithLine(doc_content, result[i].content[1])

\* a section of the heading pass whose body stands on page 3 only and whose
\* page_number is 1
C18_Observed ==
    /\ pc = "ret_extract_sections_by_content"
    /\ \E i \in 1..Len(result) :
          /\ PagesWithLine(doc_content, result[i].content[1]) = {3}
          /\ result[i].page_number = 1

\* C19: the segmenter never returns a section with an empty title: text
\* before the first heading, or a page without heading, is returned, if at
\* all, as a section titled from the page number
C19_NoEmptyTitle ==
    pc = "ret_extract_sections_by_content" =>
        \A i \in 1..Len(result) : result[i].section_title # NoTitle

\* the text before the first heading is returned as a section of the heading
\* pass, with an empty title
C19_Observed ==
    /\ pc = "ret_extract_sections_by_content"
    /\ ~FallbackUsed
    /\ TextLen(Preamble) > SectionMinLen
    /\ \E i \in 1..Len(result) :
          result[i].content = Preamble /\ result[i].section_title = NoTitle

\* the stages of a run in their order: setup, glob, extraction and
\* segmentation, scoring done, ranking done, refinement and assembly done,
\* output written, and the way out
Stage(p) ==
    CASE p = "main" -> 0
      [] p = "line_482" -> 1
      [] p = "line_492" -> 2
      [] p = "line_508" -> 3
      [] p = "line_511" -> 4
      [] p = "line_604" -> 5
      [] p = "return_main" -> 6
      [] p = "exit" -> 8
      [] OTHER -> 7

ScoringStep == pc = "line_492" /\ pc' = "line_508"

\* C20: the stages of process_documents run strictly forward;
\* calculate_relevance_scores is called once, after every PDF of the batch
\* has been extracted (or skipped) and segmented, over the sections of all
\* documents together; ranking starts after scoring and refinement after
\* ranking, and no earlier stage is entered again
C20_StagesForward ==
    [][/\ Stage(pc') >= Stage(pc)
       /\ Stage(pc') > Stage(pc) \/ pc = "line_492"
       /\ (sections' # sections \/ <<"info", "Calculating relevance scores">> \in log' \ log)
              => ScoringStep
       /\ ScoringStep =>
              /\ idx = Len(pdf_files) + 1
              /\ all_sections = SectionsOfFiles(pdf_files, Len(pdf_files), hashseed)
              /\ Len(sections') = Len(all_sections)
              /\ <<"info", "Calculating relevance scores">> \notin log
       /\ (all_sections' # all_sections \/ doc_content' # doc_content \/ idx' # idx)
              => Stage(pc) <= 2 /\ Stage(pc') <= 2
       /\ ranked_sections' # ranked_sections => pc = "line_508" /\ pc' = "line_511"
       /\ output' # output => pc = "line_511" /\ pc' = "line_604"
       /\ Stage(pc') \in 3..6 => <<"info", "Calculating relevance scores">> \in log'
      ]_vars

\* refinement is done for a batch of two readable documents with sections
C20_Witness ==
    /\ pc = "line_604"
    /\ Len(pdf_files) = 2
    /\ Len(document_info) = 2
    /\ Len(sections) = 6
    /\ Len(ranked_sections) = 6
    /\ \E i, k \in 1..6 : sections[i].document # sections[k].document
    /\ Len(output[1].subsection_analysis) = 5

\* C21: the excerpt, before the slice, is made of sentences of the body in
\* their original order and none of them twice: the top-up appends only
\* sentences that are not in the excerpt yet and that come after those taken
C21_ExcerptInOrderNoRepeat ==
    pc = "ret_extract_subsections" =>
        \A n \in 1..Len(result) :
            LET parts == result[n].refined_text.parts
            IN  \A i, k \in 1..Len(parts) : i < k => parts[i] < parts[k]

\* an excerpt that went through the top-up and holds one sentence twice, the
\* second time behind a sentence that precedes it in the body
C21_Observed ==
    /\ pc = "ret_extract_subsections"
    /\ Len(result) = 1
    /\ LET parts == result[1].refined_text.parts
       IN  /\ Len(parts) > Len(Accumulate(sent_tokenize(sections[1].content), 1, <<>>, 0))
           /\ \E i, k \in 1..Len(parts) : i < k /\ parts[i] = parts[k]
           /\ \E i, k \in 1..Len(parts) : i < k /\ parts[i] > parts[k]

====
